---- MODULE Spec2Model ----
(***************************************************************************)
(* A model of src/agent/mincore.py: the function-calling core of a minimal *)
(* agent.  MinCore.send_message is modelled statement group by statement   *)
(* group; the provider client (OpenAI Responses API) and the tools are the *)
(* environment: every provider call either raises or returns a response    *)
(* with a fresh id and an arbitrary output list, drawn from small sets.    *)
(* Spec is one send; SpecSession is a caller sending several times on one  *)
(* object; SpecCache is a caller passing more function tuples than the     *)
(* lru_caches hold; SpecExtract is _extract_function_calls on its own.     *)
(*                                                                         *)
(* Python values are records [t, s, kv]: t is the type tag, s the text of  *)
(* a scalar (a str as is, an int as its decimal digits), kv the entries of *)
(* a dict, each <<key, type tag, text>>.  None as a handle or a registry   *)
(* is the string None below, which no id or name is equal to.              *)
(***************************************************************************)
EXTENDS Integers, Sequences, FiniteSets, TLC

\* ---------------------------------------------------------------- bounds
\* The largest max_function_rounds a caller passes.
MaxRounds == 2
\* The most output items in one provider response.
MaxItems == 2
\* The most sends of one session.
MaxSends == 2
\* The most sends of the session that fills the caches: enough to insert
\* one tuple more than they hold and then ask for the evicted one again.
MaxCacheSends == 12

\* ------------------------------------------------------- Python values
None == "None"

PyNone == [t |-> "none", s |-> "", kv |-> <<>>]

PyStr(x) == [t |-> "str", s |-> x, kv |-> <<>>]

PyInt(digits) == [t |-> "int", s |-> digits, kv |-> <<>>]

PyDict(entries) == [t |-> "dict", s |-> "", kv |-> entries]

PyList(entries) == [t |-> "list", s |-> "", kv |-> entries]

\* Python truthiness of a value: `not name` at mincore.py:107.
Truthy(v) ==
    CASE v.t = "none" -> FALSE
      [] v.t = "str" -> v.s # ""
      [] v.t = "int" -> v.s # "0"
      [] OTHER -> v.kv # <<>>

\* str(v) of a scalar.
Str(v) ==
    CASE v.t = "none" -> "None"
      [] OTHER -> v.s

\* The JSON text of one scalar, as json.dumps writes it.
JsonScalar(t, s) ==
    CASE t = "str" -> "\"" \o s \o "\""
      [] t = "none" -> "null"
      [] OTHER -> s

RECURSIVE JsonEntries(_, _)
JsonEntries(kv, isDict) ==
    IF kv = <<>> THEN ""
    ELSE LET e == Head(kv)
             one == IF isDict THEN "\"" \o e[1] \o "\": " \o JsonScalar(e[2], e[3])
                    ELSE JsonScalar(e[2], e[3])
         IN IF Len(kv) = 1 THEN one
            ELSE one \o ", " \o JsonEntries(Tail(kv), isDict)

\* json.dumps(v, default=str) of a dict or a list of scalars.
JsonDumps(v) ==
    IF v.t = "dict" THEN "{" \o JsonEntries(v.kv, TRUE) \o "}"
    ELSE "[" \o JsonEntries(v.kv, FALSE) \o "]"

\* mincore.py:238: a dict or a list goes through json.dumps, the rest
\* through str.
OutputStr(result) ==
    IF result.t \in {"dict", "list"} THEN JsonDumps(result) ELSE Str(result)

\* json.loads on the argument texts the provider sends here: [ok, value].
JsonLoads(text) ==
    CASE text = "{}" -> [ok |-> TRUE, value |-> PyDict(<<>>)]
      [] text = "{\"key\": \"k\"}" ->
            [ok |-> TRUE, value |-> PyDict(<< <<"key", "str", "k">> >>)]
      [] text = "[1]" -> [ok |-> TRUE, value |-> PyList(<< <<"", "int", "1">> >>)]
      [] OTHER -> [ok |-> FALSE, value |-> PyNone]

\* --------------------------------------------------------------- tools
\* The callables a caller may pass: get_color and get_number are
\* agent-baz.py's; boom raises, lookup takes one argument and returns a dict,
\* opaque is a callable inspect.signature cannot describe.
ToolNames == {"get_color", "get_number", "boom", "lookup", "opaque"}

Introspectable(f) == f # "opaque"

ToolParams(f) == IF f = "lookup" THEN {"key"} ELSE {}

ToolDoc(f) ==
    CASE f = "get_color" -> "Select and return a random color"
      [] f = "get_number" -> "Select and return a random number integer"
      [] OTHER -> ""

RECURSIVE ArgValue(_, _)
ArgValue(kv, key) ==
    IF kv = <<>> THEN ""
    ELSE IF Head(kv)[1] = key THEN Head(kv)[3] ELSE ArgValue(Tail(kv), key)

\* What calling f(**args) ends in, args a dict: the set of possible
\* [raised, value, msg].  A keyword the signature lacks, or a missing
\* required one, raises TypeError before the body runs.  What a function
\* raises is an Exception with the message msg; what it returns is a scalar
\* or a dict of scalars, which str and json.dumps accept.
ToolOutcomes(f, args) ==
    LET keys == {args.kv[i][1] : i \in 1..Len(args.kv)}
        ret(v) == [raised |-> FALSE, value |-> v, msg |-> ""]
        exc(m) == [raised |-> TRUE, value |-> PyNone, msg |-> m]
    IN IF keys # ToolParams(f)
       THEN {exc(f \o "() got unexpected or missing keyword arguments")}
       ELSE CASE f = "get_color" -> {ret(PyStr("red"))}
              [] f = "get_number" -> {ret(PyInt("42"))}
              [] f = "lookup" ->
                    {ret(PyDict(<< <<"value", "str", ArgValue(args.kv, "key")>> >>))}
              [] f = "opaque" -> {ret(PyStr("ok"))}
              [] OTHER -> {exc("boom failed")}

\* -------------------------------------------------- optional values
\* An Optional[...] local that holds a list or a dict: <<>> is None and
\* <<v>> is the value v.
NoneVal == <<>>

Some(v) == <<v>>

\* ------------------------------------- schemas, registry, lru_cache
\* The largest number of entries functools.lru_cache keeps.
CacheMaxSize == 10

\* get_function_schema(function) plus the "type" key of mincore.py:48.
FunctionSchema(f) ==
    [type |-> "function", name |-> f, description |-> ToolDoc(f),
     parameters |-> ToolParams(f)]

\* The body of _generate_function_schemas: one schema per function, in order.
generate_function_schemas(function_list) ==
    [k \in 1..Len(function_list) |-> FunctionSchema(function_list[k])]

\* The body of _generate_function_map: __name__ -> function, a later
\* function of the same name replacing an earlier one.
generate_function_map(function_list) ==
    [n \in {function_list[k] : k \in 1..Len(function_list)} |->
        function_list[CHOOSE k \in 1..Len(function_list) :
            /\ function_list[k] = n
            /\ \A j \in 1..Len(function_list) : function_list[j] = n => j <= k]]

\* An lru_cache is a sequence of [key, value], the least recently used
\* first.  CacheHit: the key is cached.
CacheHit(cache, key) == \E k \in 1..Len(cache) : cache[k].key = key

CacheIndex(cache, key) == CHOOSE k \in 1..Len(cache) : cache[k].key = key

\* CacheValue that answers a hit with the oldest entry's value.
CacheValue_OldestEntry(cache, key, computed) ==
    IF CacheHit(cache, key) THEN cache[1].value ELSE computed

\* The value a cached call returns: the stored one on a hit, the freshly
\* computed one on a miss.
CacheValue(cache, key, computed) ==
    IF CacheHit(cache, key) THEN cache[CacheIndex(cache, key)].value ELSE computed

\* The cache after the call: a hit moves the entry to the most recent
\* end; a miss appends it and drops the oldest entry beyond maxsize.
CacheAfter(cache, key, computed) ==
    IF CacheHit(cache, key)
    THEN LET k == CacheIndex(cache, key)
         IN SubSeq(cache, 1, k - 1) \o SubSeq(cache, k + 1, Len(cache))
                \o <<cache[k]>>
    ELSE LET grown == Append(cache, [key |-> key, value |-> computed])
         IN IF Len(grown) > CacheMaxSize THEN Tail(grown) ELSE grown

\* ------------------------------------------------------ call extractor
\* One output item: the attributes _extract_function_calls reads with
\* getattr; a missing attribute is PyNone (a missing id reads as "" and a
\* None id as None, and both end as the call id "").
Item(name, arguments, call_id, id) ==
    [name |-> name, arguments |-> arguments, call_id |-> call_id, id |-> id]

\* Qualifies without the test of arguments.
Qualifies_NameOnly(item) == Truthy(item.name)

\* mincore.py:107: the item is a call.
Qualifies(item) == Truthy(item.name) /\ item.arguments.t # "none"

\* CallIdOf without the fall back to the item's id.
CallIdOf_NoFallback(item) ==
    IF Truthy(item.call_id) THEN Str(item.call_id) ELSE ""

\* mincore.py:110,122: call_id or id, as a string.
CallIdOf(item) ==
    LET call_id == IF Truthy(item.call_id) THEN item.call_id ELSE item.id
    IN IF call_id.t = "none" THEN "" ELSE Str(call_id)

\* mincore.py:112-120: the args of a qualifying item.
ArgsOf(item) ==
    IF item.arguments.t = "str"
    THEN LET parsed == JsonLoads(item.arguments.s)
         IN IF parsed.ok THEN parsed.value ELSE PyDict(<<>>)
    ELSE IF item.arguments.t = "dict" THEN item.arguments
    ELSE PyDict(<<>>)

PendingCall(item) ==
    [id |-> CallIdOf(item), name |-> Str(item.name), args |-> ArgsOf(item)]

RECURSIVE ExtractItems(_)
ExtractItems(output) ==
    IF output = <<>> THEN <<>>
    ELSE IF Qualifies(Head(output))
         THEN <<PendingCall(Head(output))>> \o ExtractItems(Tail(output))
         ELSE ExtractItems(Tail(output))

\* _extract_function_calls(response).
extract_function_calls(response) ==
    IF ~response.output_is_list THEN <<>> ELSE ExtractItems(response.output)

\* ------------------------------------------------------------ provider
\* The output items the provider sends here: a reasoning item and two
\* function calls, one of them without a call_id.  Which of the two names
\* is registered, and what the function does, is up to the function set.
ReasoningItem == Item(PyNone, PyNone, PyNone, PyStr("rs_1"))

ProviderItems ==
    { ReasoningItem,
      Item(PyStr("get_color"), PyStr("{}"), PyStr("call_a"), PyStr("fc_a")),
      Item(PyStr("boom"), PyStr("{}"), PyNone, PyStr("fc_b")) }

RECURSIVE SeqsUpTo(_, _)
SeqsUpTo(S, n) ==
    IF n = 0 THEN {<<>>}
    ELSE LET shorter == SeqsUpTo(S, n - 1)
         IN shorter \cup {Append(q, x) : q \in {p \in shorter : Len(p) = n - 1}, x \in S}

ResponseId(n) == "resp_" \o ToString(n)

NoResponse ==
    [id |-> None, output_text |-> "", output_is_list |-> FALSE, output |-> <<>>]

\* --------------------------------------------------------------- state
VARIABLES
    pc,                     \* where send_message stands
    passed_handle,          \* caller: the handle it passed to this send
    previous_response_id,   \* parameter, reassigned by the bootstrap
    functions,              \* parameter: the tuple of functions
    max_function_rounds,    \* parameter
    function_schemas,       \* local: NoneVal or Some(list of schemas)
    function_map,           \* local: NoneVal or Some(name -> function)
    response,               \* local: the current provider response
    rounds_done,            \* iterations of the for loop completed
    function_calls,         \* local: the calls extracted in this iteration
    function_call_results,  \* local: the results collected in this iteration
    call_index,             \* position of the inner for loop in function_calls
    returned,               \* <<>> or <<the (id, text) tuple returned>>
    schemas_cache,          \* lru_cache of _generate_function_schemas
    map_cache,              \* lru_cache of _generate_function_map
    next_id,                \* provider: number of the next response
    requests,               \* provider: the requests of this send, in order
    last_input,             \* provider: the input list of the latest request
    invocations,            \* tools: the calls made in the current iteration
    n_invocations,          \* tools: number of calls made in this send
    self,                   \* the MinCore object: model, system_prompt, client
    response_id,            \* caller: the handle it keeps between sends
    sends,                  \* caller: the sends it has started
    scenario                \* which callers and provider answers are explored

vars ==
    <<pc, passed_handle, previous_response_id, functions, max_function_rounds, function_schemas,
      function_map, response, rounds_done, function_calls, function_call_results,
      call_index, returned, schemas_cache, map_cache, next_id, requests,
      last_input, invocations, n_invocations, self, response_id, sends, scenario>>

params == <<passed_handle, previous_response_id, functions, max_function_rounds>>

locals ==
    <<function_schemas, function_map, response, rounds_done, function_calls,
      function_call_results, call_index, returned>>

caches == <<schemas_cache, map_cache>>

provider == <<next_id, requests, last_input>>

tools == <<invocations, n_invocations>>

\* What no statement of send_message assigns.
frame == <<self, response_id, sends, scenario>>

\* The output lists the provider sends.  A single send is explored with
\* every list of at most MaxItems provider items; a session of several
\* sends with the empty list, a call with JSON arguments that are no object
\* and a call with an argument; a run of many sends that fills the caches
\* with the empty list and one call.
SessionItems ==
    { Item(PyStr("get_color"), PyStr("[1]"), PyStr("call_c"), PyStr("fc_c")),
      Item(PyStr("lookup"), PyStr("{\"key\": \"k\"}"), PyStr("call_d"), PyStr("fc_d")) }

ProviderOutputs ==
    CASE scenario = "single" -> SeqsUpTo(ProviderItems, MaxItems)
      [] scenario = "session" -> SeqsUpTo(SessionItems, 1)
      [] OTHER -> {<<>>, <<Item(PyStr("get_color"), PyStr("{}"), PyStr("call_a"), PyStr("fc_a"))>>}

\* The responses the provider may return for its n-th accepted request:
\* a fresh id, a text that names the response, one of the output lists, or
\* an output that is no list.
ProviderResponses(n) ==
    { [id |-> ResponseId(n), output_text |-> "text of " \o ResponseId(n),
       output_is_list |-> TRUE, output |-> out] : out \in ProviderOutputs }
    \cup (IF scenario # "single" THEN {}
          ELSE { [id |-> ResponseId(n), output_text |-> "text of " \o ResponseId(n),
                  output_is_list |-> FALSE, output |-> <<>>] })

\* The function tuples a caller passes: none, agent-baz.py's funcs, and a
\* pair with a tool that raises.
FunctionSets == {<<>>, <<"get_color", "get_number">>, <<"get_color", "boom">>}

\* The function tuples of a session: one whose functions all have a
\* signature, and one with a callable that has none.
SessionFunctionSets == {<<"get_color", "lookup">>, <<"get_color", "opaque">>}

\* Sixteen distinct function tuples, more than the caches hold: every
\* ordered pair of four functions, a function paired with itself included.
CacheSet(i) ==
    LET fns == <<"get_color", "get_number", "boom", "lookup">>
    IN <<fns[((i - 1) % Len(fns)) + 1], fns[((i - 1) \div Len(fns)) + 1]>>

CacheSetIndices == 1..16

CacheSetIndex(fs) ==
    IF \E i \in CacheSetIndices : CacheSet(i) = fs
    THEN CHOOSE i \in CacheSetIndices : CacheSet(i) = fs
    ELSE 0

\* A handle the caller holds from an earlier conversation with the provider.
EarlierHandle == "resp_0"

\* What the caller passes as previous_response_id, functions and
\* max_function_rounds.  agent-baz.py passes the handle it keeps; a caller may
\* also start over with None or pass a handle from elsewhere.  The caller
\* that fills the caches does as agent-baz.py with its handle, and passes its
\* latest tuple again, the next new one, or its first one.
CallerHandles ==
    IF scenario = "cache" THEN {response_id} ELSE {None, EarlierHandle, response_id}

CallerFunctionSets ==
    CASE scenario = "single" -> FunctionSets
      [] scenario = "session" -> SessionFunctionSets
      [] OTHER -> LET i == CacheSetIndex(functions)
                  IN {CacheSet(j) : j \in {1, i, i + 1} \cap CacheSetIndices}

CallerRounds ==
    CASE scenario = "single" -> (-1)..MaxRounds
      [] OTHER -> {1}

DEFAULT_SYSTEM_PROMPT == "\nYou are a helpful assistant.\n"

UserMessage == "hello"

\* ------------------------------------------------------- provider calls
\* The input items send_message builds; a key an item lacks is "".
InputItem(type, role, content, call_id, output) ==
    [type |-> type, role |-> role, content |-> content, call_id |-> call_id,
     output |-> output]

\* mincore.py:163.
SystemInput == << InputItem("", "system", self.system_prompt, "", "") >>

\* mincore.py:200.
UserInput(user_message) == << InputItem("", "user", user_message, "", "") >>

\* FormatResults with the outputs listed last result first.
FormatResults_Reversed(results) ==
    [k \in 1..Len(results) |->
        InputItem("function_call_output", "", "",
                  results[Len(results) + 1 - k].call_id,
                  results[Len(results) + 1 - k].output)]

\* mincore.py:242-244.
FormatResults(results) ==
    [k \in 1..Len(results) |->
        InputItem("function_call_output", "", "", results[k].call_id,
                  results[k].output)]

\* What a request is, read off its input: the system prompt alone, a user
\* message, or function call outputs.
RequestKind(input) ==
    IF input # <<>> /\ input[1].role = "system" THEN "bootstrap"
    ELSE IF input # <<>> /\ input[1].role = "user" THEN "user"
    ELSE "results"

\* What the provider records of one client.responses.create call.
Request(prev, input, offered, ok, id) ==
    [kind |-> RequestKind(input), previous_response_id |-> prev,
     tools |-> offered, ok |-> ok, id |-> id]

\* client.responses.create returns resp: the request is recorded as accepted.
Accepted(prev, input, offered, resp) ==
    /\ requests' = Append(requests, Request(prev, input, offered, TRUE, resp.id))
    /\ last_input' = input
    /\ next_id' = next_id + 1

\* client.responses.create raises: nothing is stored provider-side.
Refused(prev, input, offered) ==
    /\ requests' = Append(requests, Request(prev, input, offered, FALSE, None))
    /\ last_input' = input
    /\ next_id' = next_id

\* -------------------------------------------------------- send_message
\* MinCore(): mincore.py:142-152.
NewMinCore ==
    [model |-> "gpt-5-nano", system_prompt |-> DEFAULT_SYSTEM_PROMPT, client |-> "OpenAI"]

\* The state before the first send of a scenario, but for pc and response.
StartOthers(sc) ==
    /\ passed_handle = None
    /\ previous_response_id = None
    /\ functions = <<>>
    /\ max_function_rounds = 0
    /\ function_schemas = NoneVal
    /\ function_map = NoneVal
    /\ rounds_done = 0
    /\ function_calls = <<>>
    /\ function_call_results = <<>>
    /\ call_index = 0
    /\ returned = <<>>
    /\ schemas_cache = <<>>
    /\ map_cache = <<>>
    /\ next_id = 1
    /\ requests = <<>>
    /\ last_input = <<>>
    /\ invocations = <<>>
    /\ n_invocations = 0
    /\ self = NewMinCore
    /\ response_id = None
    /\ sends = 0
    /\ scenario = sc

Start(sc) ==
    /\ pc = "idle"
    /\ response = NoResponse
    /\ StartOthers(sc)

Init == Start("single")

\* mincore.py:47 calls get_function_schema with no handler around it, and
\* get_function_schema is not this repository's: for a callable without a
\* signature it may raise, as inspect.signature does, or return a schema
\* without parameters.  An exception leaves the lru_cache as it was.
SchemaDerivationMayRaise ==
    /\ functions # <<>>
    /\ ~CacheHit(schemas_cache, functions)
    /\ \E k \in 1..Len(functions) : ~Introspectable(functions[k])

\* The caller calls send_message(user_message, previous_response_id,
\* functions, max_function_rounds).
Call ==
    /\ pc = "idle"
    /\ \E h \in CallerHandles, fs \in CallerFunctionSets, n \in CallerRounds :
          /\ passed_handle' = h
          /\ previous_response_id' = h
          /\ functions' = fs
          /\ max_function_rounds' = n
    /\ sends' = sends + 1
    /\ pc' = "bootstrap"
    /\ UNCHANGED <<locals, caches, provider, tools, self, response_id, scenario>>

\* Bootstrap whatever handle was passed.
Bootstrap_Always ==
    /\ pc = "bootstrap"
    /\ \/ \E resp \in ProviderResponses(next_id) :
             /\ Accepted(None, SystemInput, NoneVal, resp)
             /\ previous_response_id' = resp.id
             /\ pc' = "prepare"
       \/ /\ Refused(None, SystemInput, NoneVal)
          /\ previous_response_id' = previous_response_id
          /\ pc' = "failed"
    /\ UNCHANGED <<passed_handle, functions, max_function_rounds, locals, caches,
                   tools>>
    /\ UNCHANGED frame

\* mincore.py:186-188 with _create_conversation: the system prompt alone is
\* submitted and the id of the response becomes previous_response_id.
Bootstrap ==
    /\ pc = "bootstrap"
    /\ previous_response_id = None
    /\ \/ \E resp \in ProviderResponses(next_id) :
             /\ Accepted(None, SystemInput, NoneVal, resp)
             /\ previous_response_id' = resp.id
             /\ pc' = "prepare"
       \/ /\ Refused(None, SystemInput, NoneVal)
          /\ previous_response_id' = previous_response_id
          /\ pc' = "failed"
    /\ UNCHANGED <<passed_handle, functions, max_function_rounds, locals, caches,
                   tools>>
    /\ UNCHANGED frame

\* mincore.py:186: a handle was passed.
SkipBootstrap ==
    /\ pc = "bootstrap"
    /\ previous_response_id # None
    /\ pc' = "prepare"
    /\ UNCHANGED <<params, locals, caches, provider, tools>>
    /\ UNCHANGED frame

\* mincore.py:191-196: schemas and registry, through the two lru_caches,
\* when the tuple of functions is not empty.
Prepare ==
    /\ pc = "prepare"
    /\ \/ /\ IF functions # <<>>
             THEN /\ function_schemas' = Some(CacheValue(schemas_cache, functions,
                                              generate_function_schemas(functions)))
                  /\ function_map' = Some(CacheValue(map_cache, functions,
                                          generate_function_map(functions)))
                  /\ schemas_cache' = CacheAfter(schemas_cache, functions,
                                                 generate_function_schemas(functions))
                  /\ map_cache' = CacheAfter(map_cache, functions,
                                             generate_function_map(functions))
             ELSE /\ function_schemas' = NoneVal
                  /\ function_map' = NoneVal
                  /\ UNCHANGED caches
          /\ pc' = "send_user"
       \/ /\ SchemaDerivationMayRaise
          /\ pc' = "failed"
          /\ UNCHANGED <<function_schemas, function_map, caches>>
    /\ UNCHANGED <<params, response, rounds_done, function_calls,
                   function_call_results, call_index, returned, provider, tools>>
    /\ UNCHANGED frame

\* SendUserMessage with the provider's error caught: the send goes on to
\* return what it has.
SendUserMessage_SwallowsFailure ==
    /\ pc = "send_user"
    /\ \/ \E resp \in ProviderResponses(next_id) :
             /\ Accepted(previous_response_id, UserInput(UserMessage),
                         function_schemas, resp)
             /\ response' = resp
             /\ pc' = "loop"
       \/ /\ Refused(previous_response_id, UserInput(UserMessage),
                     function_schemas)
          /\ response' = response
          /\ pc' = "return"
    /\ UNCHANGED <<params, function_schemas, function_map, rounds_done,
                   function_calls, function_call_results, call_index, returned,
                   caches, tools>>
    /\ UNCHANGED frame

\* mincore.py:200-206: the user message, with the schemas as tools.
SendUserMessage ==
    /\ pc = "send_user"
    /\ \/ \E resp \in ProviderResponses(next_id) :
             /\ Accepted(previous_response_id, UserInput(UserMessage),
                         function_schemas, resp)
             /\ response' = resp
             /\ pc' = "loop"
       \/ /\ Refused(previous_response_id, UserInput(UserMessage),
                     function_schemas)
          /\ response' = response
          /\ pc' = "failed"
    /\ UNCHANGED <<params, function_schemas, function_map, rounds_done,
                   function_calls, function_call_results, call_index, returned,
                   caches, tools>>
    /\ UNCHANGED frame

\* LoopExhausted raising instead of falling through to the return.
LoopExhausted_Raises ==
    /\ pc = "loop"
    /\ rounds_done >= max_function_rounds
    /\ pc' = IF extract_function_calls(response) # <<>> THEN "failed" ELSE "return"
    /\ UNCHANGED <<params, locals, caches, provider, tools>>
    /\ UNCHANGED frame

\* mincore.py:213: range(max_function_rounds) is used up.
LoopExhausted ==
    /\ pc = "loop"
    /\ rounds_done >= max_function_rounds
    /\ pc' = "return"
    /\ UNCHANGED <<params, locals, caches, provider, tools>>
    /\ UNCHANGED frame

\* LoopNoCalls without the break: an empty result list is submitted.
LoopNoCalls_Submits ==
    /\ pc = "loop"
    /\ rounds_done < max_function_rounds
    /\ extract_function_calls(response) = <<>>
    /\ function_calls' = <<>>
    /\ function_call_results' = <<>>
    /\ invocations' = <<>>
    /\ pc' = "submit"
    /\ UNCHANGED <<params, function_schemas, function_map, response, rounds_done,
                   call_index, returned, caches, provider, n_invocations>>
    /\ UNCHANGED frame

\* mincore.py:215-218: the response holds no call: break.
LoopNoCalls ==
    /\ pc = "loop"
    /\ rounds_done < max_function_rounds
    /\ extract_function_calls(response) = <<>>
    /\ function_calls' = <<>>
    /\ pc' = "return"
    /\ UNCHANGED <<params, function_schemas, function_map, response, rounds_done,
                   function_call_results, call_index, returned, caches, provider,
                   tools>>
    /\ UNCHANGED frame

\* LoopBeginRound with the round limit off by one.
LoopBeginRound_OffByOne ==
    /\ pc = "loop"
    /\ rounds_done <= max_function_rounds
    /\ extract_function_calls(response) # <<>>
    /\ function_calls' = extract_function_calls(response)
    /\ function_call_results' = <<>>
    /\ call_index' = 1
    /\ invocations' = <<>>
    /\ pc' = "exec"
    /\ UNCHANGED <<params, function_schemas, function_map, response, rounds_done,
                   returned, caches, provider, n_invocations>>
    /\ UNCHANGED frame

\* mincore.py:215-222: the response holds calls: the inner loop starts.
LoopBeginRound ==
    /\ pc = "loop"
    /\ rounds_done < max_function_rounds
    /\ extract_function_calls(response) # <<>>
    /\ function_calls' = extract_function_calls(response)
    /\ function_call_results' = <<>>
    /\ call_index' = 1
    /\ invocations' = <<>>
    /\ pc' = "exec"
    /\ UNCHANGED <<params, function_schemas, function_map, response, rounds_done,
                   returned, caches, provider, n_invocations>>
    /\ UNCHANGED frame

\* {"error": str(e)} of mincore.py:235.
ErrorResult(msg) == PyDict(<< <<"error", "str", msg>> >>)

\* mincore.py:227-235 for one call: the ways the try block ends, each
\* [invoked, raised, result].  `name not in function_map` raises TypeError when
\* function_map is None, ValueError is raised for a name the map lacks, and
\* ** raises TypeError for args that are no mapping; all are caught, as is
\* what the function raises.
TryCall(fmap, call) ==
    IF fmap = NoneVal
    THEN {[invoked |-> FALSE, raised |-> "TypeError",
           result |-> ErrorResult("argument of type 'NoneType' is not iterable")]}
    ELSE IF call.name \notin DOMAIN fmap[1]
    THEN {[invoked |-> FALSE, raised |-> "ValueError",
           result |-> ErrorResult("Unknown function: " \o call.name)]}
    ELSE IF call.args.t # "dict"
    THEN {[invoked |-> FALSE, raised |-> "TypeError",
           result |-> ErrorResult(call.name \o "() argument after ** must be a mapping, not "
                                  \o call.args.t)]}
    ELSE {[invoked |-> TRUE, raised |-> IF o.raised THEN o.msg ELSE "",
           result |-> IF o.raised THEN ErrorResult(o.msg) ELSE o.value] :
              o \in ToolOutcomes(fmap[1][call.name], call.args)}

\* ExecuteCall without the except clause for what the function raises.
ExecuteCall_Propagates ==
    /\ pc = "exec"
    /\ call_index <= Len(function_calls)
    /\ LET call == function_calls[call_index]
       IN \E t \in TryCall(function_map, call) :
             /\ function_call_results' =
                   IF t.invoked /\ t.raised # "" THEN function_call_results
                   ELSE Append(function_call_results,
                               [call_id |-> call.id, output |-> OutputStr(t.result)])
             /\ IF t.invoked
                THEN /\ invocations' =
                           Append(invocations,
                                  [response_id |-> response.id,
                                   position |-> call_index, name |-> call.name,
                                   args |-> call.args, raised |-> t.raised])
                     /\ n_invocations' = n_invocations + 1
                ELSE UNCHANGED tools
             /\ pc' = IF t.invoked /\ t.raised # "" THEN "failed"
                      ELSE IF call_index = Len(function_calls) THEN "submit"
                      ELSE "exec"
    /\ call_index' = call_index + 1
    /\ UNCHANGED <<params, function_schemas, function_map, response, rounds_done,
                   function_calls, returned, caches, provider>>
    /\ UNCHANGED frame

\* mincore.py:222-239: one pass of the inner loop.
ExecuteCall ==
    /\ pc = "exec"
    /\ call_index <= Len(function_calls)
    /\ LET call == function_calls[call_index]
       IN \E t \in TryCall(function_map, call) :
             /\ function_call_results' =
                   Append(function_call_results,
                          [call_id |-> call.id, output |-> OutputStr(t.result)])
             /\ IF t.invoked
                THEN /\ invocations' =
                           Append(invocations,
                                  [response_id |-> response.id,
                                   position |-> call_index, name |-> call.name,
                                   args |-> call.args, raised |-> t.raised])
                     /\ n_invocations' = n_invocations + 1
                ELSE UNCHANGED tools
    /\ call_index' = call_index + 1
    /\ pc' = IF call_index = Len(function_calls) THEN "submit" ELSE "exec"
    /\ UNCHANGED <<params, function_schemas, function_map, response, rounds_done,
                   function_calls, returned, caches, provider>>
    /\ UNCHANGED frame

\* SubmitResults in a loop that does not count its rounds.
SubmitResults_NoCount ==
    /\ pc = "submit"
    /\ \/ \E resp \in ProviderResponses(next_id) :
             /\ Accepted(response.id, FormatResults(function_call_results), NoneVal, resp)
             /\ response' = resp
             /\ rounds_done' = rounds_done
             /\ pc' = "loop"
       \/ /\ Refused(response.id, FormatResults(function_call_results), NoneVal)
          /\ UNCHANGED <<response, rounds_done>>
          /\ pc' = "failed"
    /\ UNCHANGED <<params, function_schemas, function_map, function_calls,
                   function_call_results, call_index, returned, caches, tools>>
    /\ UNCHANGED frame

\* SubmitResults offering the schemas again with the results.
SubmitResults_OffersTools ==
    /\ pc = "submit"
    /\ \/ \E resp \in ProviderResponses(next_id) :
             /\ Accepted(response.id, FormatResults(function_call_results),
                         function_schemas, resp)
             /\ response' = resp
             /\ rounds_done' = rounds_done + 1
             /\ pc' = "loop"
       \/ /\ Refused(response.id, FormatResults(function_call_results),
                     function_schemas)
          /\ UNCHANGED <<response, rounds_done>>
          /\ pc' = "failed"
    /\ UNCHANGED <<params, function_schemas, function_map, function_calls,
                   function_call_results, call_index, returned, caches, tools>>
    /\ UNCHANGED frame

\* SubmitResults continuing from the handle of the user message.
SubmitResults_StaleHandle ==
    /\ pc = "submit"
    /\ \/ \E resp \in ProviderResponses(next_id) :
             /\ Accepted(previous_response_id,
                         FormatResults(function_call_results), NoneVal, resp)
             /\ response' = resp
             /\ rounds_done' = rounds_done + 1
             /\ pc' = "loop"
       \/ /\ Refused(previous_response_id,
                     FormatResults(function_call_results), NoneVal)
          /\ UNCHANGED <<response, rounds_done>>
          /\ pc' = "failed"
    /\ UNCHANGED <<params, function_schemas, function_map, function_calls,
                   function_call_results, call_index, returned, caches, tools>>
    /\ UNCHANGED frame

\* SubmitResults with the provider's error caught: the loop is left and the
\* response at hand is returned.
SubmitResults_SwallowsFailure ==
    /\ pc = "submit"
    /\ \/ \E resp \in ProviderResponses(next_id) :
             /\ Accepted(response.id, FormatResults(function_call_results), NoneVal, resp)
             /\ response' = resp
             /\ rounds_done' = rounds_done + 1
             /\ pc' = "loop"
       \/ /\ Refused(response.id, FormatResults(function_call_results), NoneVal)
          /\ UNCHANGED <<response, rounds_done>>
          /\ pc' = "return"
    /\ UNCHANGED <<params, function_schemas, function_map, function_calls,
                   function_call_results, call_index, returned, caches, tools>>
    /\ UNCHANGED frame

\* mincore.py:242-251: the results of the iteration go to the provider as
\* one request that continues from response.id.
SubmitResults ==
    /\ pc = "submit"
    /\ \/ \E resp \in ProviderResponses(next_id) :
             /\ Accepted(response.id, FormatResults(function_call_results), NoneVal, resp)
             /\ response' = resp
             /\ rounds_done' = rounds_done + 1
             /\ pc' = "loop"
       \/ /\ Refused(response.id, FormatResults(function_call_results), NoneVal)
          /\ UNCHANGED <<response, rounds_done>>
          /\ pc' = "failed"
    /\ UNCHANGED <<params, function_schemas, function_map, function_calls,
                   function_call_results, call_index, returned, caches, tools>>
    /\ UNCHANGED frame

\* Return that also keeps the handle in the object.
Return_StoresHandle ==
    /\ pc = "return"
    /\ returned' = << <<response.id, response.output_text>> >>
    /\ self' = self @@ [previous_response_id |-> response.id]
    /\ pc' = "done"
    /\ UNCHANGED <<params, function_schemas, function_map, response, rounds_done,
                   function_calls, function_call_results, call_index, caches,
                   provider, tools>>
    /\ UNCHANGED <<response_id, sends, scenario>>

\* Return with the handle the user message was sent against.
Return_StaleId ==
    /\ pc = "return"
    /\ returned' = << <<previous_response_id, response.output_text>> >>
    /\ pc' = "done"
    /\ UNCHANGED <<params, function_schemas, function_map, response, rounds_done,
                   function_calls, function_call_results, call_index, caches,
                   provider, tools>>
    /\ UNCHANGED frame

\* mincore.py:257.
Return ==
    /\ pc = "return"
    /\ returned' = << <<response.id, response.output_text>> >>
    /\ pc' = "done"
    /\ UNCHANGED <<params, function_schemas, function_map, response, rounds_done,
                   function_calls, function_call_results, call_index, caches,
                   provider, tools>>
    /\ UNCHANGED frame

Next ==
    \/ Call
    \/ Bootstrap
    \/ SkipBootstrap
    \/ Prepare
    \/ SendUserMessage
    \/ LoopExhausted
    \/ LoopNoCalls
    \/ LoopBeginRound
    \/ ExecuteCall
    \/ SubmitResults
    \/ Return

Spec == Init /\ [][Next]_vars

\* ------------------------------------------------------------ sessions
\* agent-baz.py:52-56: the caller takes what send_message returned, keeps
\* the handle, and comes round to send again.  agent-baz.py's loop ends with
\* an exception, and so does the caller that fills the caches; the caller
\* of a session catches it and still has the handle it had.  The provider's
\* view of the finished send and the finished frame's locals are dropped;
\* the object, the caches and the provider's numbering stay.
Resume ==
    /\ pc \in (IF scenario = "cache" THEN {"done"} ELSE {"done", "failed"})
    /\ sends < (IF scenario = "cache" THEN MaxCacheSends ELSE MaxSends)
    /\ response_id' = IF pc = "done" THEN returned[1][1] ELSE response_id
    /\ pc' = "idle"
    /\ function_schemas' = NoneVal
    /\ function_map' = NoneVal
    /\ response' = NoResponse
    /\ rounds_done' = 0
    /\ function_calls' = <<>>
    /\ function_call_results' = <<>>
    /\ call_index' = 0
    /\ returned' = <<>>
    /\ requests' = <<>>
    /\ last_input' = <<>>
    /\ invocations' = <<>>
    /\ n_invocations' = 0
    /\ UNCHANGED <<params, caches, next_id, self, sends, scenario>>

NextSession ==
    \/ Next
    \/ Resume

InitSession == Start("session")

SpecSession == InitSession /\ [][NextSession]_vars

InitCache == Start("cache")

SpecCache == InitCache /\ [][NextSession]_vars

\* ------------------------------------------- the extractor on its own
\* Output items for _extract_function_calls alone: every combination of a
\* missing, empty or given name with missing arguments, a JSON object with
\* and without entries, JSON that is no object, text that is no JSON, a
\* dict and an int; and a call with each combination of call_id and id.
ExtractItems_Universe ==
    { Item(n, a, PyStr("call_a"), PyStr("fc_a")) :
         n \in {PyNone, PyStr(""), PyStr("get_color")},
         a \in {PyNone, PyStr("{}"), PyStr("{\"key\": \"k\"}"), PyStr("[1]"),
                PyStr("not json"), PyDict(<< <<"key", "str", "k">> >>), PyInt("7")} }
    \cup
    { Item(PyStr("lookup"), PyStr("{}"), c, i) :
         c \in {PyNone, PyStr(""), PyStr("call_b")}, i \in {PyNone, PyStr("fc_b")} }

ExtractResponses ==
    { [id |-> ResponseId(1), output_text |-> "", output_is_list |-> TRUE,
       output |-> out] : out \in SeqsUpTo(ExtractItems_Universe, MaxItems) }
    \cup { [id |-> ResponseId(1), output_text |-> "", output_is_list |-> FALSE,
            output |-> <<>>] }

InitExtract ==
    /\ pc = "extract"
    /\ response \in ExtractResponses
    /\ StartOthers("extract")

\* calls = _extract_function_calls(response).
ExtractFunctionCalls ==
    /\ pc = "extract"
    /\ function_calls' = extract_function_calls(response)
    /\ pc' = "extracted"
    /\ UNCHANGED <<params, function_schemas, function_map, response, rounds_done,
                   function_call_results, call_index, returned, caches, provider,
                   tools, frame>>

NextExtract == ExtractFunctionCalls

SpecExtract == InitExtract /\ [][NextExtract]_vars

TypeOK ==
    /\ pc \in {"idle", "bootstrap", "prepare", "send_user", "loop", "exec",
               "submit", "return", "done", "failed", "extract", "extracted"}
    /\ rounds_done \in 0..(MaxRounds + 1)
    /\ Len(returned) <= 1

\* -------------------------------------------------------------- claims
LastRequest == requests[Len(requests)]

\* The number of function-result submissions of this send so far.
ResultsCount == Cardinality({k \in 1..Len(requests) : requests[k].kind = "results"})

\* The latest request carried function results and nothing has run since.
JustSubmitted ==
    /\ requests # <<>>
    /\ LastRequest.kind = "results"
    /\ pc \in {"loop", "failed"}

\* C1: in every round the inner loop collects one result per extracted call,
\* in extraction order and under the call's id, before anything is
\* submitted; the submission that follows carries exactly these results as
\* function_call_output items, in the same order; and there is one such
\* submission per round.
C1_RoundResultsMatchCalls ==
    /\ pc \in {"exec", "submit"} =>
          /\ function_calls = extract_function_calls(response)
          /\ Len(function_call_results) =
                (IF pc = "submit" THEN Len(function_calls) ELSE call_index - 1)
          /\ \A k \in 1..Len(function_call_results) :
                function_call_results[k].call_id = function_calls[k].id
    /\ JustSubmitted =>
          /\ Len(last_input) = Len(function_calls)
          /\ \A k \in 1..Len(last_input) :
                /\ last_input[k].type = "function_call_output"
                /\ last_input[k].call_id = function_calls[k].id
                /\ last_input[k].output = function_call_results[k].output
    /\ ResultsCount = rounds_done + (IF JustSubmitted /\ pc = "failed" THEN 1 ELSE 0)

\* A submission of two results whose call ids differ has been accepted.
C1_Witness ==
    /\ JustSubmitted
    /\ pc = "loop"
    /\ Len(last_input) = 2
    /\ last_input[1].call_id # last_input[2].call_id

\* C2: with max_function_rounds = N >= 0, one send makes at most N
\* function-result submissions, whatever the provider answers.
C2_AtMostNResultSubmissions ==
    max_function_rounds >= 0 => ResultsCount <= max_function_rounds

\* N = 2, every response requested a call, and the send has returned after
\* two function-result submissions with calls still pending.
C2_Witness ==
    /\ pc = "done"
    /\ max_function_rounds = 2
    /\ ResultsCount = 2
    /\ extract_function_calls(response) # <<>>

\* The tuple send_message returns from the response at hand.
ResponseTuple == << <<response.id, response.output_text>> >>

\* The for loop has used up its rounds and the response at hand asks for calls.
LimitReachedPending ==
    /\ pc = "loop"
    /\ rounds_done >= max_function_rounds
    /\ extract_function_calls(response) # <<>>

\* C3: when the round limit is reached while the latest response still
\* requests calls, none of these calls has been executed, the next step is
\* the return statement, without a further provider call or tool
\* invocation, and the return statement yields the id and text of that
\* response and ends the send normally.
C3_RoundLimitReturnsLastResponse ==
    [][ /\ LimitReachedPending =>
              /\ \A k \in 1..Len(invocations) :
                    invocations[k].response_id # response.id
              /\ pc' = "return"
              /\ UNCHANGED <<response, provider, tools>>
        /\ pc = "return" =>
              /\ pc' = "done"
              /\ returned' = ResponseTuple
              /\ UNCHANGED <<response, provider, tools>> ]_vars

\* A send with N >= 1 has returned at the round limit: the response it
\* returned requests calls and tools ran in the earlier rounds only.
C3_Witness ==
    /\ pc = "done"
    /\ max_function_rounds >= 1
    /\ rounds_done = max_function_rounds
    /\ extract_function_calls(response) # <<>>
    /\ n_invocations > 0
    /\ returned = ResponseTuple

\* C4: when the response to the user message holds no qualifying call, no
\* tool has run, the next step is the return statement, no provider call
\* is made on the way, and the id and text of that response are returned.
C4_NoCallsNoRounds ==
    [][ /\ (pc = "loop" /\ rounds_done = 0
                /\ extract_function_calls(response) = <<>>) =>
              /\ LastRequest.kind = "user"
              /\ LastRequest.id = response.id
              /\ n_invocations = 0
              /\ pc' = "return"
              /\ UNCHANGED <<response, provider, tools>>
        /\ (pc = "return" /\ rounds_done = 0) =>
              /\ pc' = "done"
              /\ returned' = ResponseTuple
              /\ UNCHANGED <<response, provider, tools>> ]_vars

\* A send with rounds to spare has returned the user-message response,
\* which held a reasoning item and no call.
C4_Witness ==
    /\ pc = "done"
    /\ max_function_rounds >= 1
    /\ response.output = <<ReasoningItem>>
    /\ Len(requests) = 1
    /\ n_invocations = 0
    /\ returned = ResponseTuple

\* The names the function set of this send defines.
Registry == {functions[k] : k \in 1..Len(functions)}

\* The results collected so far belong to function_calls, index by index.
ResultsAligned == pc \in {"exec", "submit"} \/ JustSubmitted

UnknownFunctionOutput(name) == "{\"error\": \"Unknown function: " \o name \o "\"}"

\* C5: a call whose name the function set of the send does not define, the
\* empty set included, invokes no tool and gets the output
\* {"error": "Unknown function: <name>"}; the calls after it are processed.
C5_UnknownFunctionErrorResult ==
    ResultsAligned =>
       /\ \A k \in 1..Len(function_call_results) :
             function_calls[k].name \notin Registry =>
                /\ function_call_results[k].output =
                      UnknownFunctionOutput(function_calls[k].name)
                /\ \A j \in 1..Len(invocations) : invocations[j].position # k
       /\ pc = "submit" => Len(function_call_results) = Len(function_calls)

\* C6: what an invoked tool raises is caught: the call's result is the
\* object {"error": <message>}, under the call's id; every call of the
\* round whose function is registered is still invoked before the round is
\* submitted; and a send fails only when the provider refuses a request.
C6_ToolErrorContained ==
    /\ \A j \in 1..Len(invocations) :
          invocations[j].raised # "" =>
             /\ invocations[j].position <= Len(function_call_results)
             /\ function_call_results[invocations[j].position].output =
                   "{\"error\": \"" \o invocations[j].raised \o "\"}"
             /\ ResultsAligned =>
                   function_call_results[invocations[j].position].call_id =
                      function_calls[invocations[j].position].id
    /\ (pc = "submit" \/ JustSubmitted) =>
          \A k \in 1..Len(function_calls) :
             (/\ function_map # NoneVal
              /\ function_calls[k].name \in DOMAIN function_map[1]
              /\ function_calls[k].args.t = "dict") =>
                \E j \in 1..Len(invocations) : invocations[j].position = k
    /\ pc = "failed" => ~LastRequest.ok

\* In a round whose first call raised, the second call ran and returned, and
\* the provider has accepted the results of the round.
C6_Witness ==
    /\ JustSubmitted
    /\ pc = "loop"
    /\ LastRequest.ok
    /\ Len(invocations) = 2
    /\ invocations[1].raised = "boom failed"
    /\ invocations[2].raised = ""
    /\ last_input[1].output = "{\"error\": \"boom failed\"}"
    /\ last_input[2].output = "red"

\* C7: the system-prompt-only bootstrap request is made exactly when the
\* caller passed no handle; it is then the first request of the send, and
\* the user message is the request right after it; with a handle the user
\* message is the first request.
C7_BootstrapIffNoHandle ==
    /\ \A k \in 1..Len(requests) :
          /\ requests[k].kind = "bootstrap" <=> (k = 1 /\ passed_handle = None)
          /\ requests[k].kind = "user" <=>
                (k = (IF passed_handle = None THEN 2 ELSE 1))
    /\ Len(requests) >= 2 => requests[1].ok
    /\ (requests # <<>> /\ LastRequest.kind = "bootstrap") =>
          last_input = SystemInput /\ LastRequest.tools = NoneVal
    /\ pc \in {"prepare", "send_user"} =>
          Len(requests) = (IF passed_handle = None THEN 1 ELSE 0)

\* No handle was passed, and the bootstrap and then the user message have
\* been accepted.
C7_Witness ==
    /\ passed_handle = None
    /\ Len(requests) = 2
    /\ requests[1].kind = "bootstrap"
    /\ requests[2].kind = "user"
    /\ requests[2].ok

\* C8: the requests of one send form one chain: the user message continues
\* from the handle passed, or from the id the bootstrap returned; every
\* function-result request continues from the id returned by the request
\* before it, which is the response whose calls ran in that round.
C8_HandleChain ==
    /\ \A k \in 1..Len(requests) :
          CASE requests[k].kind = "bootstrap" ->
                  requests[k].previous_response_id = None
            [] requests[k].kind = "user" ->
                  requests[k].previous_response_id =
                     (IF k = 1 THEN passed_handle ELSE requests[k - 1].id)
            [] OTHER ->
                  /\ k > 1
                  /\ requests[k - 1].ok
                  /\ requests[k].previous_response_id = requests[k - 1].id
    /\ pc \in {"exec", "submit"} =>
          /\ response.id = LastRequest.id
          /\ \A j \in 1..Len(invocations) : invocations[j].response_id = response.id
    /\ JustSubmitted =>
          \A j \in 1..Len(invocations) :
             invocations[j].response_id = LastRequest.previous_response_id

\* Bootstrap, user message and two rounds of results, all accepted, with a
\* tool run in the second round.
C8_Witness ==
    /\ Len(requests) = 4
    /\ requests[1].kind = "bootstrap"
    /\ requests[4].kind = "results"
    /\ requests[4].ok
    /\ invocations # <<>>

\* C9: the tuple returned is the id and the text of one response, the last
\* one the provider returned: the user-message response when no round ran,
\* else the response to the last function-result request.  Nothing is
\* returned before the return statement.
C9_ReturnsLastResponse ==
    IF pc = "done"
    THEN /\ returned = ResponseTuple
         /\ LastRequest.ok
         /\ returned[1][1] = LastRequest.id
         /\ returned[1][2] = "text of " \o LastRequest.id
         /\ LastRequest.kind = (IF rounds_done = 0 THEN "user" ELSE "results")
    ELSE returned = <<>>

\* A send has returned after two rounds.
C9_Witness ==
    /\ pc = "done"
    /\ rounds_done = 2
    /\ returned # <<>>

\* A request of this send was refused: client.responses.create raised.
SomeRefused == \E k \in 1..Len(requests) : ~requests[k].ok

\* C10: when a provider call raises, at the bootstrap, the user message or a
\* round's results, the send ends in failure at that call: the refused
\* request is the last one, nothing is returned, and from then on no tool
\* is invoked and no request is made.
C10_ProviderFailurePropagates ==
    [][ /\ SomeRefused' =>
              /\ pc' = "failed"
              /\ returned' = <<>>
              /\ \A k \in 1..Len(requests') : ~requests'[k].ok => k = Len(requests')
        /\ SomeRefused => UNCHANGED <<provider, tools, returned, pc>> ]_vars

\* The provider refused the results of a round in which a tool had run.
C10_Witness ==
    /\ pc = "failed"
    /\ LastRequest.kind = "results"
    /\ ~LastRequest.ok
    /\ n_invocations > 0

\* The requests of this send the provider accepted.
AcceptedCount == Cardinality({k \in 1..Len(requests) : requests[k].ok})

\* C11 as stated: when a send fails on a provider call, no tool has been
\* invoked by it and the provider has accepted none of its requests.
C11_NothingConsumedOnFailure ==
    pc = "failed" => n_invocations = 0 /\ AcceptedCount = 0

\* C11, amended: a send that fails on a provider call returns nothing and
\* leaves the caller's handle as it was passed, but every request before the
\* failing one has been accepted by the provider and the tools of the rounds
\* run so far have been invoked; nothing has been consumed only when the
\* failing call is the first provider call of the send.
C11_FailureKeepsEarlierEffects ==
    /\ SomeRefused => pc = "failed"
    /\ pc = "failed" =>
          /\ returned = <<>>
          /\ ~LastRequest.ok
          /\ AcceptedCount = Len(requests) - 1
          /\ next_id = Len(requests)
          /\ LastRequest.previous_response_id =
                (IF Len(requests) = 1 THEN passed_handle
                 ELSE requests[Len(requests) - 1].id)
          /\ Len(requests) = 1 => n_invocations = 0
          /\ n_invocations > 0 => LastRequest.kind = "results"

\* The results of a round were refused after the bootstrap and the user
\* message had been accepted and a tool had run.
C11_Witness ==
    /\ pc = "failed"
    /\ passed_handle = None
    /\ AcceptedCount = 2
    /\ n_invocations > 0

\* The most provider calls one send makes.
MaxProviderCalls ==
    (IF max_function_rounds > 0 THEN max_function_rounds ELSE 0)
       + (IF passed_handle = None THEN 2 ELSE 1)

\* The steps send_message has left at most: a strictly decreasing measure.
StepsLeft ==
    LET roundCost == MaxItems + 2
        roundsLeft == IF max_function_rounds > rounds_done
                      THEN max_function_rounds - rounds_done ELSE 0
        submitCost == (roundsLeft - 1) * roundCost + 3
    IN CASE pc = "idle" -> MaxRounds * roundCost + 6
         [] pc = "bootstrap" -> MaxRounds * roundCost + 5
         [] pc = "prepare" -> MaxRounds * roundCost + 4
         [] pc = "send_user" -> MaxRounds * roundCost + 3
         [] pc = "loop" -> roundsLeft * roundCost + 2
         [] pc = "exec" -> submitCost + MaxItems + 1 - call_index
         [] pc = "submit" -> submitCost
         [] pc = "return" -> 1
         [] OTHER -> 0

C20_ToolsOnlyWithUserMessage ==
    \A k \in 1..Len(requests) :
       requests[k].tools =
          (IF requests[k].kind = "user" /\ functions # <<>>
           THEN Some(generate_function_schemas(functions))
           ELSE NoneVal)

\* With a function set passed, bootstrap, user message and one round of
\* results have been accepted.
C20_Witness ==
    /\ functions # <<>>
    /\ Len(requests) = 3
    /\ requests[1].kind = "bootstrap"
    /\ requests[2].tools # NoneVal
    /\ requests[3].kind = "results"
    /\ requests[3].ok

\* After the two derivations of send_message, and until it ends.
Derived == pc \in {"send_user", "loop", "exec", "submit", "return", "done"}

\* C15: through any sequence of sends with any mix of function tuples, more
\* distinct tuples than the caches hold included, the schemas and the
\* registry a send works with, and the schemas it offers the provider, are
\* what a fresh derivation from the tuple passed to that send gives.
C15_CachedEqualsFresh ==
    /\ Derived /\ functions # <<>> =>
          /\ function_schemas = Some(generate_function_schemas(functions))
          /\ function_map = Some(generate_function_map(functions))
    /\ Derived /\ functions = <<>> =>
          function_schemas = NoneVal /\ function_map = NoneVal
    /\ \A k \in 1..Len(requests) :
          requests[k].kind = "user" /\ functions # <<>> =>
             requests[k].tools = Some(generate_function_schemas(functions))

\* The caches were full, the first tuple and then the second were evicted,
\* and the first has been asked for and derived again.
C15_Witness ==
    /\ pc = "loop"
    /\ functions = CacheSet(1)
    /\ Len(schemas_cache) = CacheMaxSize
    /\ Len(map_cache) = CacheMaxSize
    /\ schemas_cache[CacheMaxSize].key = CacheSet(1)
    /\ ~CacheHit(schemas_cache, CacheSet(2))
    /\ CacheHit(schemas_cache, CacheSet(CacheMaxSize + 1))

\* The output list the extractor walks: none when output is no list.
OutputList == IF response.output_is_list THEN response.output ELSE <<>>

\* The positions of the items with a non-empty name and arguments that are
\* not None.
QualifyingPositions ==
    {k \in 1..Len(OutputList) :
        /\ OutputList[k].name \notin {PyNone, PyStr("")}
        /\ OutputList[k].arguments # PyNone}

\* The place of qualifying position k among the qualifying positions.
Rank(k) == Cardinality({j \in QualifyingPositions : j <= k})

\* C12: _extract_function_calls returns one Pending Call for each output item
\* with a non-empty name and non-null arguments and for no other item, in
\* the order of the output list; an output that is missing or no list gives
\* the empty sequence.
C12_OneCallPerQualifyingItem ==
    pc = "extracted" =>
       /\ Len(function_calls) = Cardinality(QualifyingPositions)
       /\ \A k \in QualifyingPositions :
             function_calls[Rank(k)] = PendingCall(OutputList[k])
       /\ ~response.output_is_list => function_calls = <<>>

\* One call was extracted from a list of two items, the first of which has
\* a name and no arguments.
C12_Witness ==
    /\ pc = "extracted"
    /\ Len(OutputList) = 2
    /\ QualifyingPositions = {2}
    /\ OutputList[1].name = PyStr("get_color")
    /\ Len(function_calls) = 1
    /\ function_calls[1].name = "lookup"

\* C13: the args of every Pending Call is a mapping: the parsed value of a
\* JSON string, the empty mapping when the string does not parse, the
\* mapping itself when arguments is one.
C13_ArgsIsMapping ==
    pc = "extracted" =>
       \A k \in QualifyingPositions :
          /\ function_calls[Rank(k)].args.t = "dict"
          /\ OutputList[k].arguments.t = "dict" =>
                function_calls[Rank(k)].args = OutputList[k].arguments
          /\ OutputList[k].arguments.t = "str"
                /\ ~JsonLoads(OutputList[k].arguments.s).ok =>
                function_calls[Rank(k)].args = PyDict(<<>>)

\* C14: the id of a Pending Call is the item's call_id when that is present
\* and non-empty, else the item's id when present, else the empty string.
C14_CallIdOrIdOrEmpty ==
    pc = "extracted" =>
       \A k \in QualifyingPositions :
          function_calls[Rank(k)].id =
             (IF OutputList[k].call_id \notin {PyNone, PyStr("")}
              THEN OutputList[k].call_id.s
              ELSE IF OutputList[k].id # PyNone THEN OutputList[k].id.s
              ELSE "")

\* A call was extracted from an item with an id and no call_id, and another
\* from an item with neither.
C14_Witness ==
    /\ pc = "extracted"
    /\ Len(function_calls) = 2
    /\ OutputList[1].call_id = PyNone /\ OutputList[1].id = PyStr("fc_b")
    /\ function_calls[1].id = "fc_b"
    /\ OutputList[2].call_id = PyStr("") /\ OutputList[2].id = PyNone
    /\ function_calls[2].id = ""

\* C16: schema derivation does not abort on a function whose signature
\* cannot be introspected: the step that derives the schemas always hands
\* over to the submission of the user message, with one schema per function
\* and an empty parameter set for such a function.
C16_SchemaDerivationNeverAborts ==
    [][pc = "prepare" =>
          /\ pc' = "send_user"
          /\ functions # <<>> =>
                /\ Len(function_schemas'[1]) = Len(functions)
                /\ \A k \in 1..Len(functions) :
                      /\ function_schemas'[1][k].name = functions[k]
                      /\ ~Introspectable(functions[k]) =>
                            function_schemas'[1][k].parameters = {}]_vars

\* The calls of function_calls the inner loop is through with.
Consumed == IF pc = "submit" THEN Len(function_calls) ELSE call_index - 1

\* C17: in a round, every extracted call whose name is in the registry has
\* the registered function invoked exactly once, with the call's args,
\* before the round's submission; the invocations are in extraction order,
\* and each belongs to an extracted call.
C17_EachCallInvokedOnce ==
    pc \in {"exec", "submit"} =>
       /\ \A k \in 1..Consumed :
             function_calls[k].name \in Registry =>
                Cardinality({j \in 1..Len(invocations) :
                                invocations[j].position = k}) = 1
       /\ \A j \in 1..Len(invocations) :
             /\ invocations[j].position \in 1..Consumed
             /\ invocations[j].name = function_calls[invocations[j].position].name
             /\ invocations[j].args = function_calls[invocations[j].position].args
             /\ j > 1 => invocations[j - 1].position < invocations[j].position

\* C18: send_message leaves the object as the constructor made it, through
\* any sequence of sends: model, system_prompt and client keep their values
\* and no attribute is added; and the first request of every send carries
\* the handle the caller passed to that send, the request after a bootstrap
\* the id the bootstrap returned.
C18_NoConversationStateInSession ==
    /\ [](/\ self = NewMinCore
          /\ requests # <<>> =>
                /\ requests[1].previous_response_id = passed_handle
                /\ (requests[1].kind = "bootstrap") = (passed_handle = None)
          /\ Len(requests) > 1 /\ passed_handle = None =>
                requests[2].previous_response_id = requests[1].id)
    /\ [][self' = self]_vars

\* A second send on the same object starts over without a handle, after the
\* first returned one, and ends.
C18_Witness ==
    /\ sends = 2
    /\ pc = "done"
    /\ response_id # None
    /\ passed_handle = None
    /\ requests[1].kind = "bootstrap"
    /\ requests[2].previous_response_id # response_id

====
